---- MODULE Spec2Model ----
(***************************************************************************)
(* AliSim: simulation of sequences along a phylogenetic tree.              *)
(*   src/main/alisim.cpp    the first simulator: one DFS per rate regime,  *)
(*                          then a separate DFS that writes the leaves;    *)
(*   src/unnamed/part_000   AliSimulatorInvar: the only-invariant-sites    *)
(*                          simulator that writes and releases sequences   *)
(*                          while it traverses the tree.                   *)
(* Probabilities are integers on a grid: MaxDraw stands for 1.0, and a     *)
(* uniform draw is a value of 1..MaxDraw.                                  *)
(***************************************************************************)
EXTENDS Integers, Sequences, FiniteSets, TLC

\* ------------------------------------------------------------------ bounds
\* params.alisim_sequence_length: the requested number of sites
sequence_length == 1
\* the grid value of probability 1.0; random_double() yields 1..MaxDraw
MaxDraw == 3
\* rate_heterogeneity->getNDiscreteRate()
num_rate_categories == 2
\* tree->getRate()->getPInvar(), on the grid
invariant_proportion == 1

\* --------------------------------------------------------------- constants
\* SEQ_BINARY
max_num_states == 2

ROOT_NAME == "__root__"

States == 0..(max_num_states - 1)
Draws == 1..MaxDraw
\* what a read outside an array, or of a released sequence, can yield
GarbageStates == (-1)..max_num_states
\* what the sampler can yield on a row read outside the matrix
GarbageItems == (-1)..(max_num_states - 1)

\* ------------------------------------------------------------------- trees
Nbr(n, len, m) == [node |-> n, length |-> len, model |-> m]

\* unrooted tree, rooted at the leaf taxon A:  A - x - {B, C}
TreeLeafRoot ==
  [ root |-> 1,
    name |-> <<"A", "", "B", "C">>,
    neighbors |-> << <<Nbr(2, 2, "")>>,
                     <<Nbr(1, 2, ""), Nbr(3, 1, ""), Nbr(4, 2, "")>>,
                     <<Nbr(2, 1, "")>>,
                     <<Nbr(2, 2, "")>> >> ]

\* rooted tree: the leaf __root__ above x; the edge x - B names its own model
TreeRooted ==
  [ root |-> 1,
    name |-> <<ROOT_NAME, "", "B", "C">>,
    neighbors |-> << <<Nbr(2, 2, "")>>,
                     <<Nbr(1, 2, ""), Nbr(3, 1, "M1"), Nbr(4, 2, "")>>,
                     <<Nbr(2, 1, "M1")>>,
                     <<Nbr(2, 2, "")>> >> ]

\* star tree rooted at its internal node: all three neighbours are children
TreeStar ==
  [ root |-> 1,
    name |-> <<"", "A", "B", "C">>,
    neighbors |-> << <<Nbr(2, 1, ""), Nbr(3, 2, ""), Nbr(4, 1, "")>>,
                     <<Nbr(1, 1, "")>>,
                     <<Nbr(1, 2, "")>>,
                     <<Nbr(1, 1, "")>> >> ]

Trees == {TreeLeafRoot, TreeRooted, TreeStar}

Nodes == 1..4

isLeaf(t, n) == Len(t.neighbors[n]) = 1

leafNum(t) == Cardinality({n \in Nodes : isLeaf(t, n)})

\* FOR_NEIGHBOR(node, dad, it): the first position >= from of node's
\* neighbour list whose node is not dad; 0 when there is none
NextNeighbor(t, node, dad, from) ==
  LET ok == {j \in from..Len(t.neighbors[node]) : t.neighbors[node][j].node # dad}
  IN IF ok = {} THEN 0 ELSE CHOOSE j \in ok : \A k \in ok : j <= k

\* --------------------------------------------------- probability sampler
RECURSIVE ScanProbabilityMatrix(_, _, _, _, _, _)
ScanProbabilityMatrix(pm, starting_index, num_items, random_number, i, acc) ==
  IF i >= num_items THEN -1
  ELSE LET accummulated_probability == acc + pm[starting_index + i]
       IN IF random_number <= accummulated_probability THEN i
          ELSE ScanProbabilityMatrix(pm, starting_index, num_items, random_number,
                                     i + 1, accummulated_probability)

\* a sampler that answers with the position in the array, not the item
getRandomItemAbsoluteIndex(pm, starting_index, num_items, random_number) ==
  LET r == ScanProbabilityMatrix(pm, starting_index, num_items, random_number, 0, 0)
  IN IF r = -1 THEN -1 ELSE starting_index + r

getRandomItemWithProbabilityMatrix(pm, starting_index, num_items, random_number) ==
  ScanProbabilityMatrix(pm, starting_index, num_items, random_number, 0, 0)

\* ------------------------------------------- transition-matrix provider
\* model->computeTransMatrix(t, trans_matrix): row-major, rows sum to MaxDraw
\* or, where rounding falls short, to MaxDraw - 1
StayProbability(model, t) ==
  IF model = "" THEN (IF t = 1 THEN MaxDraw - 1 ELSE IF t = 2 THEN MaxDraw - 2 ELSE 1)
  ELSE 1

MoveProbability(model, t) ==
  IF model = "" THEN (IF t <= 2 THEN 1 ELSE MaxDraw - 1)
  ELSE MaxDraw - 1

computeTransMatrix(model, t) ==
  [k \in 0..(max_num_states * max_num_states - 1) |->
     IF k \div max_num_states = k % max_num_states
     THEN StayProbability(model, t) ELSE MoveProbability(model, t)]

\* model->getStateFrequency(state_freq)
getStateFrequency == [k \in 0..(max_num_states - 1) |-> IF k = 0 THEN MaxDraw - 1 ELSE 1]

\* rate_heterogeneity->getRate(c), a multiple of the branch length
getRate(c) == c + 1

\* rate_heterogeneity->getProp(c): the weights of the categories sum to
\* MaxDraw, less the share of the invariant class when the name holds +I
getProp(rn, c) ==
  IF c = 0
  THEN MaxDraw - (num_rate_categories - 1) - (IF "+I" \in rn THEN invariant_proportion ELSE 0)
  ELSE 1

\* aln->convertStateBackStr(state)
convertStateBackStr(state) ==
  IF state = 0 THEN "0" ELSE IF state = 1 THEN "1" ELSE "?"

convertEncodedSequenceToReadableSequence(seq) ==
  [i \in DOMAIN seq |-> convertStateBackStr(seq[i])]

\* aln->convertState(ch): the four letters on the two states of the alphabet
convertState(ch) == IF ch \in {"A", "C"} THEN 0 ELSE 1

\* the fixed input sequence of retrieveAncestralSequenceFromInputFile
sequence_str ==
  << "G", "G", "A", "G", "A", "G", "T", "G", "T", "C", "C", "T", "G", "A", "C", "C", "T", "G", "G", "A",
     "A", "G", "G", "A", "A", "T", "A", "C", "C", "T", "G", "T", "A", "A", "A", "G", "G", "G", "G", "G",
     "C", "G", "C", "C", "A", "T", "T", "T", "A", "T", "A", "A", "A", "A", "C", "T", "A", "C", "A", "T",
     "A", "G", "A", "T", "G", "G", "C", "T", "C", "A", "A", "A", "A", "C", "T", "A", "G", "G", "A", "C",
     "C", "A", "T", "A", "A", "T", "G", "C", "C", "G", "G", "T", "C", "C", "T", "C", "A", "A", "G", "G" >>

retrieveAncestralSequenceFromInputFile ==
  [i \in 1..Len(sequence_str) |-> convertState(sequence_str[i])]

\* ------------------------------------------------------------------ state
VARIABLES
  simulator,          \* "alisim" (alisim.cpp) or "invar" (AliSimulatorInvar)
  tree,               \* the tree read from the tree file
  rate_name,          \* tree->getRateName(), as the set of its +X parts
  params,             \* Params: sequence_type, alisim_ancestral_sequence,
                      \* alisim_dataset_num, alisim_fundi_taxon_set
  length_ratio,       \* AliSimulator::length_ratio
  io_failure,         \* where the output stream fails: "none", "open", "header",
                      \* "record" or "close"
  dataset,            \* runAliSim: the index i of the dataset being generated
  pc,                 \* the statement the run has reached
  stack,              \* the recursion: frames [node, dad, it], innermost first
  ancestral_sequence, \* the sequence given to the root
  sequence,           \* node->sequence of every node
  out,                \* the output file: header and leaf records
  site_specific_rates,          \* AliSimulatorInvar: 0 marks an invariant site
  num_children_done_simulation, \* AliSimulatorInvar: per node
  fundi_pending,      \* FunDi: the qualifying leaf that waits for its partner, or 0
  permuted,           \* FunDi: per node, the calls of permuteSelectedSites for it in
                      \* the current traversal
  trans_matrix_buffer, \* AliSimulatorInvar: the matrix last computed into the
                      \* array trans_matrix that all edges share
  visited,            \* history: the nodes in the order the traversal reached them
  simulated,          \* history: per node, the sequence its edge was simulated to
  site_treatment,     \* history: per node, how its edge treated each site
  removed_sites,      \* history: the columns removeConstantSites removed
  twin,               \* TRUE when a second run on the same draws is followed
  sequence2,          \* node->sequence of every node in the second run
  out2,               \* the output file of the second run
  call,               \* a single call of a function, with its arguments and draws
  ret,                \* what that call returned
  shell               \* the memory check script: fail_count of the script's shell,
                      \* fail_count of the subshell of its loop, the row the loop
                      \* is at, the exit status and the last line printed

vars == <<simulator, tree, rate_name, params, length_ratio, io_failure, dataset, pc, stack, ancestral_sequence, sequence, out,
          site_specific_rates, num_children_done_simulation, fundi_pending,
          permuted, trans_matrix_buffer, visited, simulated,
          site_treatment, removed_sites, twin, sequence2, out2, call, ret, shell>>

config == <<simulator, tree, rate_name, params, length_ratio, io_failure, twin>>
invarVars ==
  <<site_specific_rates, num_children_done_simulation, fundi_pending, permuted,
    trans_matrix_buffer>>
history == <<visited, simulated, site_treatment, removed_sites>>
run2 == <<sequence2, out2>>
fnVars == <<call, ret, shell>>

\* AliSimulator::expected_num_sites: the inflated number of sites
expected_num_sites == sequence_length * length_ratio

\* the sites of a site loop, for (i = 0; i < sequence_length; i++): in alisim.cpp
\* sequence_length is the requested length, in AliSimulatorInvar it is
\* expected_num_sites
Sites == 1..(IF simulator = "invar" THEN expected_num_sites ELSE sequence_length)

RateNames == {{}, {"+G"}, {"+I"}, {"+G", "+I"}}

NoSequences == [n \in Nodes |-> <<>>]
NoOutput == [header |-> <<>>, records |-> <<>>]
NoCall == [fn |-> "none"]
NoShell == [fail_count |-> 0, subshell_fail_count |-> 0, row |-> 0, status |-> -1,
            printed |-> "none"]

\* the draws of one site loop, and what out-of-range reads of it can yield
SiteDraws == [Sites -> Draws]
NoGarbage == [i \in Sites |-> 0]
Garbage(on, ps) ==
  IF on /\ \E i \in Sites : ps[i] \notin States THEN [Sites -> GarbageItems] ELSE {NoGarbage}

\* trans_matrix[dad_state*max_num_states + ...] sampled with the draw u; a
\* dad_state outside 0..max_num_states-1 reads outside the matrix
SampleRow(trans_matrix, dad_state, u, g) ==
  IF dad_state \in States
  THEN getRandomItemWithProbabilityMatrix(trans_matrix, dad_state * max_num_states,
                                          max_num_states, u)
  ELSE g

TopFrame == Head(stack)
TopNext == NextNeighbor(tree, TopFrame.node, TopFrame.dad, TopFrame.it)
TopNeighbor == tree.neighbors[TopFrame.node][TopNext]
\* the recursion after the call for the neighbour at position j of the top frame
Descend(j) ==
  <<[node |-> tree.neighbors[TopFrame.node][j].node, dad |-> TopFrame.node, it |-> 1],
    [TopFrame EXCEPT !.it = j + 1]>> \o Tail(stack)

RootFrame == <<[node |-> tree.root, dad |-> tree.root, it |-> 1]>>

\* --------------------------------------------------- alisim.cpp: dataset
\* initializeAlignment: the switch on the sequence type; a throw ends the run
initializeAlignment ==
  /\ pc = "initializeAlignment"
  /\ pc' = IF params.sequence_type \in {"MORPH", "POMO"} THEN "thrown"
           ELSE "getAncestralSequence"
  /\ UNCHANGED <<config, stack, ancestral_sequence, sequence, out, invarVars, history,
                 run2, fnVars, dataset>>

generateRandomSequence(freq_equal, u) ==
  [i \in Sites |->
     IF freq_equal THEN (u[i] - 1) % max_num_states
     ELSE getRandomItemWithProbabilityMatrix(getStateFrequency, 0, max_num_states, u[i])]

\* lines 108-111 of generateSingleDatasetFromSingleTree
getAncestralSequence ==
  /\ pc = "getAncestralSequence"
  /\ \E freq_equal \in BOOLEAN, u \in SiteDraws :
       LET s == IF params.alisim_ancestral_sequence >= 0
                THEN retrieveAncestralSequenceFromInputFile
                ELSE generateRandomSequence(freq_equal, u)
       IN /\ ancestral_sequence' = s
          /\ sequence' = [sequence EXCEPT ![tree.root] = s]
          /\ simulated' = [simulated EXCEPT ![tree.root] = s]
          /\ sequence2' = IF twin THEN [sequence2 EXCEPT ![tree.root] = s] ELSE sequence2
  /\ pc' = "simulateSeqsForTree"
  /\ UNCHANGED <<config, stack, out, invarVars, visited, site_treatment, out2, fnVars, removed_sites,
                 dataset>>

TraversalOf(rn) ==
  IF rn = {} THEN "simulateSeqsWithoutRH"
  ELSE IF "+G" \in rn \/ "+R" \in rn THEN "simulateSeqsWithRateHeterogeneity"
  ELSE IF "+I" \in rn THEN "simulateSeqsWithOnlyInvariantSites"
  ELSE "none"

simulateSeqsForTree ==
  /\ pc = "simulateSeqsForTree"
  /\ simulator = "alisim"
  /\ pc' = IF TraversalOf(rate_name) = "none" THEN "writeSequencesToFile"
           ELSE TraversalOf(rate_name)
  /\ stack' = IF TraversalOf(rate_name) = "none" THEN <<>> ELSE RootFrame
  /\ visited' = IF TraversalOf(rate_name) = "none" THEN <<>> ELSE <<tree.root>>
  /\ UNCHANGED <<config, ancestral_sequence, sequence, out, invarVars, simulated,
                 site_treatment, run2, fnVars, removed_sites, dataset>>

\* what every traversal of alisim.cpp does with the edge to the next neighbour
\* of the top frame: s is the neighbour's new sequence, s2 that of the second run
SimulateEdge(s, s2, treatment) ==
  /\ sequence' = [sequence EXCEPT ![TopNeighbor.node] = s]
  /\ sequence2' = IF twin THEN [sequence2 EXCEPT ![TopNeighbor.node] = s2] ELSE sequence2
  /\ simulated' = [simulated EXCEPT ![TopNeighbor.node] = s]
  /\ site_treatment' = [site_treatment EXCEPT ![TopNeighbor.node] = treatment]
  /\ visited' = Append(visited, TopNeighbor.node)
  /\ stack' = Descend(TopNext)
  /\ UNCHANGED <<config, pc, ancestral_sequence, out, invarVars, out2, fnVars, removed_sites, dataset>>

\* case 1: the site loop of one edge
\* a resize to one site more than requested
WithoutRHSequenceLong(nb, ps, u, g) ==
  LET trans_matrix == computeTransMatrix("", nb.length)
  IN [i \in 1..(sequence_length + 1) |->
        IF i \in Sites THEN SampleRow(trans_matrix, ps[i], u[i], g[i]) ELSE 0]

WithoutRHSequence(nb, ps, u, g) ==
  LET trans_matrix == computeTransMatrix("", nb.length)
  IN [i \in Sites |-> SampleRow(trans_matrix, ps[i], u[i], g[i])]

simulateSeqsWithoutRH ==
  /\ pc = "simulateSeqsWithoutRH"
  /\ stack # <<>>
  /\ TopNext # 0
  /\ \E u \in SiteDraws, g \in Garbage(TRUE, sequence[TopFrame.node]),
        g2 \in Garbage(twin, sequence2[TopFrame.node]) :
       SimulateEdge(WithoutRHSequence(TopNeighbor, sequence[TopFrame.node], u, g),
                    WithoutRHSequence(TopNeighbor, sequence2[TopFrame.node], u, g2),
                    <<>>)

\* a caller that takes a category draw that found nothing for the last category
estimateStateWithRHLastCategory(category_probability_matrix, trans_matrix, branch_length, dad_state, u1, u2, g) ==
  LET found == getRandomItemWithProbabilityMatrix(category_probability_matrix, 0,
                                                  num_rate_categories, u1)
      rate_category == IF found = -1 THEN num_rate_categories - 1 ELSE found
      computed == computeTransMatrix("", branch_length * getRate(rate_category))
  IN [state |-> SampleRow(computed, dad_state, u2, g), trans_matrix |-> computed,
      computed_for |-> branch_length * getRate(rate_category), draws |-> 2,
      rate_category |-> found]

\* a caller that computes the matrix of the edge before it looks at the
\* category draw
estimateStateWithRHRecomputed(category_probability_matrix, trans_matrix, branch_length, dad_state, u1, u2, g) ==
  LET rate_category == getRandomItemWithProbabilityMatrix(category_probability_matrix, 0,
                                                          num_rate_categories, u1)
      rate == IF rate_category = -1 THEN 1 ELSE getRate(rate_category)
      computed == computeTransMatrix("", branch_length * rate)
  IN IF rate_category = -1
     THEN [state |-> dad_state, trans_matrix |-> computed, computed_for |-> 0,
           draws |-> 1, rate_category |-> -1]
     ELSE [state |-> SampleRow(computed, dad_state, u2, g), trans_matrix |-> computed,
           computed_for |-> branch_length * rate, draws |-> 2,
           rate_category |-> rate_category]

\* one call of estimateStateWithRH with the draws u1 (category) and u2 (state):
\* the state it returns, the matrix buffer it leaves, the branch length it
\* computed the matrix for (0: none) and the number of draws it consumed
estimateStateWithRH(category_probability_matrix, trans_matrix, branch_length, dad_state, u1, u2, g) ==
  LET rate_category == getRandomItemWithProbabilityMatrix(category_probability_matrix, 0,
                                                          num_rate_categories, u1)
      rate == getRate(rate_category)
      computed == computeTransMatrix("", branch_length * rate)
  IN IF rate_category = -1
     THEN [state |-> dad_state, trans_matrix |-> trans_matrix, computed_for |-> 0,
           draws |-> 1, rate_category |-> -1]
     ELSE [state |-> SampleRow(computed, dad_state, u2, g), trans_matrix |-> computed,
           computed_for |-> branch_length * rate, draws |-> 2,
           rate_category |-> rate_category]

\* lines 219-221 of simulateSeqsForTree
CategoryProbabilityMatrix(rn) == [c \in 0..(num_rate_categories - 1) |-> getProp(rn, c)]

\* case 2.1: the site loop of one edge
WithRateHeterogeneitySequence(nb, ps, u1, u2, g) ==
  [i \in Sites |->
     estimateStateWithRH(CategoryProbabilityMatrix(rate_name), computeTransMatrix("", 1),
                         nb.length, ps[i], u1[i], u2[i], g[i]).state]

simulateSeqsWithRateHeterogeneity ==
  /\ pc = "simulateSeqsWithRateHeterogeneity"
  /\ stack # <<>>
  /\ TopNext # 0
  /\ \E u1 \in SiteDraws, u2 \in SiteDraws, g \in Garbage(TRUE, sequence[TopFrame.node]),
        g2 \in Garbage(twin, sequence2[TopFrame.node]) :
       SimulateEdge(
         WithRateHeterogeneitySequence(TopNeighbor, sequence[TopFrame.node], u1, u2, g),
         WithRateHeterogeneitySequence(TopNeighbor, sequence2[TopFrame.node], u1, u2, g2),
         <<>>)

\* case 2.2: the site loop of one edge; u1 decides whether the site is
\* invariant on this edge, u2 samples the state of a variable site
OnlyInvariantSitesSequence(nb, ps, u1, u2, g) ==
  LET trans_matrix == computeTransMatrix("", nb.length)
  IN [i \in Sites |->
        IF u1[i] <= invariant_proportion THEN ps[i]
        ELSE SampleRow(trans_matrix, ps[i], u2[i], g[i])]

simulateSeqsWithOnlyInvariantSites ==
  /\ pc = "simulateSeqsWithOnlyInvariantSites"
  /\ stack # <<>>
  /\ TopNext # 0
  /\ \E u1 \in SiteDraws, u2 \in SiteDraws, g \in Garbage(TRUE, sequence[TopFrame.node]),
        g2 \in Garbage(twin, sequence2[TopFrame.node]) :
       SimulateEdge(
         OnlyInvariantSitesSequence(TopNeighbor, sequence[TopFrame.node], u1, u2, g),
         OnlyInvariantSitesSequence(TopNeighbor, sequence2[TopFrame.node], u1, u2, g2),
         [i \in Sites |-> IF u1[i] <= invariant_proportion THEN "invariant"
                          ELSE "variable"])

\* the end of a FOR_NEIGHBOR loop: the call returns
returnFromNode ==
  /\ pc \in {"simulateSeqsWithoutRH", "simulateSeqsWithRateHeterogeneity",
             "simulateSeqsWithOnlyInvariantSites"}
  /\ stack # <<>>
  /\ TopNext = 0
  /\ stack' = Tail(stack)
  /\ pc' = IF Tail(stack) = <<>> THEN "writeSequencesToFile" ELSE pc
  /\ UNCHANGED <<config, ancestral_sequence, sequence, out, invarVars, history, run2,
                 fnVars, dataset>>

\* ---------------------------------------------------- alisim.cpp: output
RECURSIVE writeASequenceToFile(_, _, _, _)
RECURSIVE writeNeighborsToFile(_, _, _, _, _)

\* a writer that does not leave out the leaf named ROOT_NAME
writeASequenceToFileWithRoot(t, seqs, node, dad) ==
  (IF isLeaf(t, node)
   THEN <<[name |-> t.name[node],
           line |-> convertEncodedSequenceToReadableSequence(seqs[node])]>>
   ELSE <<>>)
  \o writeNeighborsToFile(t, seqs, node, dad, 1)

writeASequenceToFile(t, seqs, node, dad) ==
  (IF isLeaf(t, node) /\ t.name[node] # ROOT_NAME
   THEN <<[name |-> t.name[node],
           line |-> convertEncodedSequenceToReadableSequence(seqs[node])]>>
   ELSE <<>>)
  \o writeNeighborsToFile(t, seqs, node, dad, 1)

writeNeighborsToFile(t, seqs, node, dad, from) ==
  LET j == NextNeighbor(t, node, dad, from)
  IN IF j = 0 THEN <<>>
     ELSE writeASequenceToFile(t, seqs, t.neighbors[node][j].node, node)
          \o writeNeighborsToFile(t, seqs, node, dad, j + 1)

\* the next position of runAliSim once a dataset is complete
AfterDataset ==
  IF dataset + 1 < params.alisim_dataset_num THEN "nextDataset" ELSE "done"

\* what has reached the file f when the stream fails
WrittenBeforeFailure(f) ==
  IF io_failure \in {"open", "header"} THEN NoOutput
  ELSE IF io_failure = "record" THEN [f EXCEPT !.records = <<>>]
  ELSE f

FileOf(seqs) ==
  [header |-> <<leafNum(tree), sequence_length>>,
   records |-> writeASequenceToFile(tree, seqs, tree.root, tree.root)]

writeSequencesToFile ==
  /\ pc = "writeSequencesToFile"
  /\ out' = WrittenBeforeFailure(FileOf(sequence))
  /\ out2' = IF twin THEN FileOf(sequence2) ELSE out2
  /\ pc' = IF io_failure # "none" THEN "outError" ELSE AfterDataset
  /\ UNCHANGED <<config, stack, ancestral_sequence, sequence, invarVars, history,
                 sequence2, fnVars, dataset>>

\* ------------------------------------------- AliSimulatorInvar (part_000)
\* the sampler on the accumulated matrix that tries the dad's own state first
\* and then the other states in their order; -1 when the row falls short
RECURSIVE ScanOtherStates(_, _, _, _, _, _)
ScanOtherStates(trans_matrix, starting_index, dad_state, random_number, i, acc) ==
  IF i >= max_num_states THEN -1
  ELSE IF i = dad_state
       THEN ScanOtherStates(trans_matrix, starting_index, dad_state, random_number, i + 1, acc)
  ELSE LET a == acc + trans_matrix[starting_index + i]
       IN IF random_number <= a THEN i
          ELSE ScanOtherStates(trans_matrix, starting_index, dad_state, random_number, i + 1, a)

getRandomItemWithAccumulatedProbMatrixMaxProbFirst(trans_matrix, starting_index, dad_state, random_number) ==
  IF random_number <= trans_matrix[starting_index + dad_state] THEN dad_state
  ELSE ScanOtherStates(trans_matrix, starting_index, dad_state, random_number, 0,
                       trans_matrix[starting_index + dad_state])

\* node->sequence[i]; a released sequence is empty and the read yields g
ReadState(seq, i, g) == IF i \in DOMAIN seq THEN seq[i] ELSE g

SampleRowMaxProbFirst(trans_matrix, dad_state, u, g) ==
  IF dad_state \in States
  THEN getRandomItemWithAccumulatedProbMatrixMaxProbFirst(
         trans_matrix, dad_state * max_num_states, dad_state, u)
  ELSE g

\* line 147: the matrix of an edge simulated with the common model
CommonTransMatrix(nb) == computeTransMatrix("", nb.length)

\* the site loop of one edge simulated with the common model: gs is what the
\* reads of a released dad sequence yield, g what reads outside the matrix yield
simulateASequenceFromBranchAfterInitVariables(nb, ps, rates, u, gs, g) ==
  LET trans_matrix == CommonTransMatrix(nb)
  IN [i \in Sites |->
        IF rates[i] = 0 THEN ReadState(ps, i, gs[i])
        ELSE SampleRowMaxProbFirst(trans_matrix, ReadState(ps, i, gs[i]), u[i], g[i])]

\* a walker that ignores the model an edge names
BranchSpecificTransMatrixCommon(nb) == computeTransMatrix("", nb.length)

\* the matrix of an edge that names its own model
BranchSpecificTransMatrix(nb) == computeTransMatrix(nb.model, nb.length)

\* the site loop of one edge that names its own model: the call is given
\* neither the common model nor the site-specific rates
branchSpecificEvolution(nb, ps, u, gs, g) ==
  LET trans_matrix == BranchSpecificTransMatrix(nb)
  IN [i \in Sites |->
        SampleRowMaxProbFirst(trans_matrix, ReadState(ps, i, gs[i]), u[i], g[i])]

\* fundi_items: the selected sites
fundi_items == {1}

\* permuteSelectedSites(fundi_items, node): a leaf of the taxon set waits for
\* the next one, and the states of the selected sites are then exchanged
\* between the two; gf is what reads of a released sequence yield, and a
\* write to a released sequence is lost
permuteSelectedSites(t, fs0, node, gf) ==
  LET fs == [fs0 EXCEPT !.calls[node] = @ + 1]
      a == fs.pending
      sa == fs.seqs[a]
      sb == fs.seqs[node]
  IN IF t.name[node] \notin params.alisim_fundi_taxon_set THEN fs
     ELSE IF fs.pending = 0 THEN [fs EXCEPT !.pending = node]
     ELSE [seqs |-> [fs.seqs EXCEPT
                       ![a] = [i \in DOMAIN sa |->
                                 IF i \in fundi_items THEN ReadState(sb, i, gf[i])
                                 ELSE sa[i]],
                       ![node] = [i \in DOMAIN sb |->
                                    IF i \in fundi_items THEN ReadState(sa, i, gf[i])
                                    ELSE sb[i]]],
           pending |-> 0, calls |-> fs.calls]

\* a walker that permutes a leaf child once more after the step
AfterFunDiChildAgain(t, seqs, pending, calls, node, child, gf) ==
  LET fs0 == [seqs |-> seqs, pending |-> pending, calls |-> calls]
      fs1 == IF isLeaf(t, node) THEN permuteSelectedSites(t, fs0, node, gf) ELSE fs0
      fs2 == IF isLeaf(t, child) THEN permuteSelectedSites(t, fs1, child, gf) ELSE fs1
      fs3 == IF isLeaf(t, child) THEN permuteSelectedSites(t, fs2, child, gf) ELSE fs2
  IN IF params.alisim_fundi_taxon_set = {} THEN fs0 ELSE fs3

\* lines 48-54: the permutation step after the edge from node to child
AfterFunDi(t, seqs, pending, calls, node, child, gf) ==
  LET fs0 == [seqs |-> seqs, pending |-> pending, calls |-> calls]
      fs1 == IF isLeaf(t, node) THEN permuteSelectedSites(t, fs0, node, gf) ELSE fs0
      fs2 == IF isLeaf(t, child) THEN permuteSelectedSites(t, fs1, child, gf) ELSE fs1
  IN IF params.alisim_fundi_taxon_set = {} THEN fs0 ELSE fs2

\* a node whose children simulated so far number its neighbours less one
Eligible(t, done, n) == done[n] >= Len(t.neighbors[n]) - 1

LeafRecord(t, seqs, n) ==
  [name |-> t.name[n], line |-> convertEncodedSequenceToReadableSequence(seqs[n])]

\* writeAndDeleteSequenceImmediatelyIfPossible(out, state_mapping, it, node):
\* the records written, and the sequences kept, after the edge from node to
\* child has been simulated (seqs holds the child's sequence, done the counters)
WrittenAfterEdge(t, seqs, done, node, child) ==
  (IF isLeaf(t, child) THEN <<LeafRecord(t, seqs, child)>> ELSE <<>>)
  \o (IF isLeaf(t, node) /\ t.name[node] # ROOT_NAME /\ Eligible(t, done, node)
      THEN <<LeafRecord(t, seqs, node)>> ELSE <<>>)

ReleasedAfterEdge(t, seqs, done, node, child) ==
  [n \in Nodes |->
     IF (n = child /\ isLeaf(t, child)) \/ (n = node /\ Eligible(t, done, node))
     THEN <<>> ELSE seqs[n]]

\* lines 171-181
initVariables(u) == [i \in Sites |-> IF u[i] <= invariant_proportion THEN 0 ELSE 1]

\* lines 103-104
InvarHeader(t) ==
  <<leafNum(t) - (IF isLeaf(t, t.root) /\ t.name[t.root] = ROOT_NAME THEN 1 ELSE 0),
    expected_num_sites \div length_ratio>>

\* lines 71-112 of AliSimulatorInvar::simulateSeqsForTree
AliSimulatorInvar_simulateSeqsForTree ==
  /\ pc = "simulateSeqsForTree"
  /\ simulator = "invar"
  /\ \E u \in SiteDraws : site_specific_rates' = initVariables(u)
  /\ trans_matrix_buffer' = <<>>
  /\ permuted' = [n \in Nodes |-> 0]
  /\ IF io_failure \in {"open", "header"}
     THEN /\ pc' = "outError"
          /\ UNCHANGED <<out, stack, visited>>
     ELSE /\ out' = [header |-> InvarHeader(tree), records |-> <<>>]
          /\ stack' = RootFrame
          /\ visited' = <<tree.root>>
          /\ pc' = "simulateSeqs"
  /\ UNCHANGED <<config, ancestral_sequence, sequence, num_children_done_simulation,
                 fundi_pending, simulated, site_treatment, run2, fnVars, removed_sites,
                 dataset>>

\* lines 37-38: the counters after the reset at the top of the loop body
ResetCounter(t, done, node) ==
  IF done[node] >= Len(t.neighbors[node]) - 1 THEN [done EXCEPT ![node] = 0] ELSE done

\* one pass of the FOR_NEIGHBOR loop of AliSimulatorInvar::simulateSeqs
AliSimulatorInvar_simulateSeqs ==
  /\ pc = "simulateSeqs"
  /\ stack # <<>>
  /\ TopNext # 0
  /\ LET node == TopFrame.node
         nb == TopNeighbor
         done == [ResetCounter(tree, num_children_done_simulation, node)
                    EXCEPT ![node] = @ + 1]
         ps == sequence[node]
     IN \E u \in {f \in SiteDraws :
                    \A i \in Sites :
                      (nb.model = "" /\ site_specific_rates[i] = 0) => f[i] = 1},
           gs \in (IF Len(ps) < expected_num_sites THEN [Sites -> GarbageStates]
                   ELSE {NoGarbage}) :
        \E g \in {f \in [Sites -> GarbageItems] :
                    \A i \in Sites : ReadState(ps, i, gs[i]) \in States => f[i] = 0},
           gf \in {f \in [Sites -> GarbageStates] :
                     \A i \in Sites :
                       ~(/\ i \in fundi_items
                         /\ fundi_pending # 0
                         /\ Len(sequence[fundi_pending]) < expected_num_sites
                         /\ \E n \in {node, nb.node} :
                              /\ isLeaf(tree, n)
                              /\ tree.name[n] \in params.alisim_fundi_taxon_set)
                       => f[i] = 0} :
          LET child_sequence ==
                IF nb.model # ""
                THEN branchSpecificEvolution(nb, ps, u, gs, g)
                ELSE simulateASequenceFromBranchAfterInitVariables(
                       nb, ps, site_specific_rates, u, gs, g)
              fundi == AfterFunDi(tree, [sequence EXCEPT ![nb.node] = child_sequence],
                                  fundi_pending, permuted, node, nb.node, gf)
              seqs == fundi.seqs
              \* the stream throws ios::failure on the first record it is given
              fails == /\ io_failure = "record"
                       /\ WrittenAfterEdge(tree, seqs, done, node, nb.node) # <<>>
          IN /\ sequence' = IF fails THEN seqs
                            ELSE ReleasedAfterEdge(tree, seqs, done, node, nb.node)
             /\ out' = IF fails THEN out
                       ELSE [out EXCEPT !.records =
                               @ \o WrittenAfterEdge(tree, seqs, done, node, nb.node)]
             /\ pc' = IF fails THEN "ios_failure" ELSE pc
             /\ stack' = IF fails THEN stack ELSE Descend(TopNext)
             /\ simulated' = [simulated EXCEPT ![nb.node] = child_sequence]
             /\ site_treatment' =
                  [site_treatment EXCEPT
                     ![nb.node] = [i \in Sites |->
                                     IF nb.model = "" /\ site_specific_rates[i] = 0
                                     THEN "invariant" ELSE "variable"]]
             /\ num_children_done_simulation' = done
             /\ fundi_pending' = fundi.pending
             /\ permuted' = fundi.calls
             /\ trans_matrix_buffer' = IF nb.model # "" THEN BranchSpecificTransMatrix(nb)
                                       ELSE CommonTransMatrix(nb)
  /\ visited' = Append(visited, TopNeighbor.node)
  /\ UNCHANGED <<config, ancestral_sequence, site_specific_rates, run2, fnVars,
                 removed_sites, dataset>>

\* the read of a released dad sequence ends the process
AliSimulatorInvar_segfault ==
  /\ pc = "simulateSeqs"
  /\ stack # <<>>
  /\ TopNext # 0
  /\ Len(sequence[TopFrame.node]) < expected_num_sites
  /\ pc' = "crashed"
  /\ UNCHANGED <<config, stack, ancestral_sequence, sequence, out, invarVars, history,
                 run2, fnVars, dataset>>

\* the end of a FOR_NEIGHBOR loop of AliSimulatorInvar::simulateSeqs
AliSimulatorInvar_return ==
  /\ pc = "simulateSeqs"
  /\ stack # <<>>
  /\ TopNext = 0
  /\ stack' = Tail(stack)
  /\ pc' = IF Tail(stack) = <<>> THEN "closeOutput" ELSE pc
  /\ UNCHANGED <<config, ancestral_sequence, sequence, out, invarVars, history, run2,
                 fnVars, dataset>>

\* removeConstantSites(): the leaves that still hold a sequence of full length
\* are the alignment; the columns on which they all agree are constant
AlignedLeaves(seqs) ==
  {n \in Nodes : isLeaf(tree, n) /\ Len(seqs[n]) = expected_num_sites}

ConstantSites(seqs) ==
  {i \in 1..expected_num_sites :
     \A a, b \in AlignedLeaves(seqs) : seqs[a][i] = seqs[b][i]}

\* the excess columns to remove: constant ones, in scan order
SitesToRemove(seqs) ==
  IF AlignedLeaves(seqs) = {} THEN {}
  ELSE {i \in ConstantSites(seqs) :
          Cardinality({j \in ConstantSites(seqs) : j < i})
            < expected_num_sites - expected_num_sites \div length_ratio}

\* seq without the columns of gone
WithoutSites(seq, gone) ==
  LET kept == {i \in DOMAIN seq : i \notin gone}
  IN [k \in 1..Cardinality(kept) |->
        seq[CHOOSE i \in kept : Cardinality({j \in kept : j <= i}) = k]]

removeConstantSites(seqs) ==
  [n \in Nodes |->
     IF n \in AlignedLeaves(seqs) THEN WithoutSites(seqs[n], SitesToRemove(seqs))
     ELSE seqs[n]]

\* lines 117-138 of AliSimulatorInvar::simulateSeqsForTree
AliSimulatorInvar_closeOutput ==
  /\ pc = "closeOutput"
  /\ IF io_failure = "close"
     THEN /\ pc' = "ios_failure"
          /\ UNCHANGED <<sequence, removed_sites>>
     ELSE /\ sequence' = IF length_ratio > 1 THEN removeConstantSites(sequence)
                         ELSE sequence
          /\ removed_sites' = IF length_ratio > 1 THEN SitesToRemove(sequence) ELSE {}
          /\ pc' = AfterDataset
  /\ UNCHANGED <<config, stack, ancestral_sequence, out, invarVars, visited, simulated,
                 site_treatment, run2, fnVars, dataset>>

\* ------------------------------------------------------- dataset loop
\* a loop that obtains the ancestral sequence once, before its first pass
nextDatasetWithoutAncestralSequence ==
  /\ pc = "nextDataset"
  /\ dataset' = dataset + 1
  /\ out' = NoOutput
  /\ visited' = <<>>
  /\ simulated' = NoSequences
  /\ site_treatment' = NoSequences
  /\ removed_sites' = {}
  /\ pc' = "simulateSeqsForTree"
  /\ UNCHANGED <<config, stack, ancestral_sequence, sequence, invarVars, run2, fnVars>>

\* runAliSim: i++ and the start of the next pass of the loop over the datasets;
\* the node sequences and counters of the tree are left as the last dataset
\* left them, the output file is a new one
nextDataset ==
  /\ pc = "nextDataset"
  /\ dataset' = dataset + 1
  /\ out' = NoOutput
  /\ visited' = <<>>
  /\ simulated' = NoSequences
  /\ site_treatment' = NoSequences
  /\ removed_sites' = {}
  /\ pc' = "getAncestralSequence"
  /\ UNCHANGED <<config, stack, ancestral_sequence, sequence, invarVars, run2, fnVars>>

\* ------------------------------------------------- single function calls
\* the arrays a call of the sampler is given
ProbabilityArrays == [0..(max_num_states * max_num_states - 1) -> 0..(MaxDraw - 1)]

SamplerCalls ==
  {c \in [fn : {"getRandomItemWithProbabilityMatrix"}, pm : ProbabilityArrays,
          starting_index : 0..max_num_states, num_items : 0..max_num_states,
          u : Draws] :
     c.starting_index + c.num_items <= max_num_states * max_num_states}

\* category weights: they sum to MaxDraw, or fall short of it by one grid step
CategoryWeights ==
  {w \in [0..(num_rate_categories - 1) -> 1..MaxDraw] :
     \E short \in {0, 1} :
       \A c \in DOMAIN w : w[c] = (IF c = 0 THEN MaxDraw - (num_rate_categories - 1) - short
                                   ELSE 1)}

EstimateCalls ==
  [fn : {"estimateStateWithRH"}, category_probability_matrix : CategoryWeights,
   trans_matrix : {computeTransMatrix("", 1)}, branch_length : {1, 2},
   dad_state : States \cup {-1}, u1 : Draws, u2 : Draws]

callGetRandomItemWithProbabilityMatrix ==
  /\ pc = "call"
  /\ call.fn = "getRandomItemWithProbabilityMatrix"
  /\ ret' = getRandomItemWithProbabilityMatrix(call.pm, call.starting_index,
                                               call.num_items, call.u)
  /\ pc' = "returned"
  /\ UNCHANGED <<config, stack, ancestral_sequence, sequence, out, invarVars, history,
                 run2, call, shell, dataset>>

callEstimateStateWithRH ==
  /\ pc = "call"
  /\ call.fn = "estimateStateWithRH"
  /\ \E g \in (IF call.dad_state \in States THEN {0} ELSE GarbageItems) :
       ret' = estimateStateWithRH(call.category_probability_matrix, call.trans_matrix,
                                  call.branch_length, call.dad_state, call.u1, call.u2, g)
  /\ pc' = "returned"
  /\ UNCHANGED <<config, stack, ancestral_sequence, sequence, out, invarVars, history,
                 run2, call, shell, dataset>>

\* ------------------------------------------------- timetree.cpp: writeDate
\* names are sequences of characters, so that prefixes and commas can be read
TaxonNames == {<<"A">>, <<"B">>, <<"m", "r", "c", "a", "1">>}

\* a date line of the date file may name a list of taxa: "A,B"
TaxonLists == {<<"A", ",", "B">>}

\* the date strings of a date file
DateStrings == {"2020", "NA", "2019:2020"}

\* convertDate(date): a range x:y becomes b(x,y), other dates are returned as
\* they are
convertDate(date) == IF date = "2019:2020" THEN "b(2019,2020)" ELSE date

\* date.first.substr(0, Len(prefix)) == prefix
HasPrefix(name, prefix) ==
  Len(name) >= Len(prefix) /\ SubSeq(name, 1, Len(prefix)) = prefix

\* date.first.find(',') != string::npos
HasComma(name) == \E i \in DOMAIN name : name[i] = ","

\* the taxa of a key of the date file
TaxaOf(key) == IF key = <<"A", ",", "B">> THEN {<<"A">>, <<"B">>} ELSE {key}

\* the first loop of writeDate: the dated names of the tree that are retained
\* and erased from dates
RetainedTaxa(nodenames, dates, outgroup_set, date_with_outgroup) ==
  {name \in nodenames :
     /\ name \in DOMAIN dates
     /\ (name \notin outgroup_set \/ date_with_outgroup)
     /\ dates[name] # "NA"}

\* the second loop of writeDate: the key under which a date left in dates is
\* retained, or <<>> when it is not retained
AncestralKey(key, outgroup_set, date_with_outgroup) ==
  IF HasPrefix(key, <<"m", "r", "c", "a">>)
     \/ HasPrefix(key, <<"a", "n", "c", "e", "s", "t", "o", "r">>)
  THEN key
  ELSE IF HasComma(key)
  THEN <<"a", "n", "c", "e", "s", "t", "o", "r", "(">> \o key \o <<")">>
  ELSE IF key \notin outgroup_set \/ date_with_outgroup THEN key
  ELSE <<>>

\* retained_dates at the end of the two loops, as the set of its entries
writeDate(nodenames, dates, outgroup_set, date_with_outgroup) ==
  LET first == RetainedTaxa(nodenames, dates, outgroup_set, date_with_outgroup)
      left == DOMAIN dates \ first
  IN {[name |-> n, date |-> dates[n]] : n \in first}
     \cup {[name |-> AncestralKey(k, outgroup_set, date_with_outgroup), date |-> dates[k]] :
             k \in {d \in left : AncestralKey(d, outgroup_set, date_with_outgroup) # <<>>}}

\* the orders in which an unordered_map can be iterated
Orderings(S) ==
  {f \in [1..Cardinality(S) -> S] : \A i, j \in 1..Cardinality(S) : i # j => f[i] # f[j]}

\* the date files readDateFile accepts: every taxon of every key is a node name
DateMaps(nodenames) ==
  UNION {[keys -> DateStrings] :
           keys \in SUBSET {k \in TaxonNames \cup TaxonLists : TaxaOf(k) \subseteq nodenames}}

WriteDateCalls ==
  UNION {[fn : {"writeDate"}, nodenames : {names}, dates : DateMaps(names),
          outgroup_set : SUBSET TaxonNames, date_with_outgroup : BOOLEAN] :
           names \in {ns \in SUBSET TaxonNames : Cardinality(ns) >= 2}}

\* lines 195-199: the count and the records written to the date stream
callWriteDate ==
  /\ pc = "call"
  /\ call.fn = "writeDate"
  /\ LET retained_dates == writeDate(call.nodenames, call.dates, call.outgroup_set,
                                     call.date_with_outgroup)
     IN \E order \in Orderings(retained_dates) :
          ret' = [count |-> Cardinality(retained_dates),
                  records |-> [i \in DOMAIN order |->
                                 [name |-> order[i].name,
                                  date |-> convertDate(order[i].date)]]]
  /\ pc' = "returned"
  /\ UNCHANGED <<config, stack, ancestral_sequence, sequence, out, invarVars, history,
                 run2, call, shell, dataset>>

\* ------------------------------------------ the memory check script
\* the rows of the combined table after its header: threshold, expected and
\* reported memory of one command
MaxRows == 2

MemoryRows == [threshold : {0, 1}, expected : {1, 2}, reported : {1, 2, 3}]

CombinedTables == UNION {[1..n -> MemoryRows] : n \in 0..MaxRows}

\* is_exceed: reported > expected + threshold
is_exceed(r) == r.reported > r.expected + r.threshold

\* fail_count=0 and the start of the pipeline tail | while read: the loop
\* runs in a subshell that starts with a copy of the shell's variables
memoryCheckStart ==
  /\ pc = "call"
  /\ call.fn = "memory_check"
  /\ shell' = [fail_count |-> 0, subshell_fail_count |-> 0, row |-> 1, status |-> -1,
               printed |-> "none"]
  /\ pc' = "memoryCheckLoop"
  /\ UNCHANGED <<config, stack, ancestral_sequence, sequence, out, invarVars, history,
                 run2, call, ret, dataset>>

\* one pass of the loop body, in the subshell
memoryCheckRow ==
  /\ pc = "memoryCheckLoop"
  /\ shell.row <= Len(call.rows)
  /\ shell' = [shell EXCEPT
                 !.subshell_fail_count =
                    IF is_exceed(call.rows[shell.row]) THEN @ + 1 ELSE @,
                 !.printed = IF is_exceed(call.rows[shell.row]) THEN "exceeded"
                             ELSE "passed the memory check",
                 !.row = @ + 1]
  /\ UNCHANGED <<config, pc, stack, ancestral_sequence, sequence, out, invarVars, history,
                 run2, call, ret, dataset>>

\* the subshell ends with the pipeline; the test of fail_count in the
\* script's shell, the last message and the exit status
memoryCheckSummary ==
  /\ pc = "memoryCheckLoop"
  /\ shell.row > Len(call.rows)
  /\ shell' = [shell EXCEPT
                 !.printed = IF shell.fail_count = 0 THEN "All runtime checks passed."
                             ELSE "checks failed.",
                 !.status = IF shell.fail_count = 0 THEN 0 ELSE 1]
  /\ pc' = "returned"
  /\ UNCHANGED <<config, stack, ancestral_sequence, sequence, out, invarVars, history,
                 run2, call, ret, dataset>>

\* --------------------------------------------------------- specifications
Idle ==
  /\ stack = <<>>
  /\ ancestral_sequence = <<>>
  /\ sequence = NoSequences
  /\ out = NoOutput
  /\ site_specific_rates = <<>>
  /\ num_children_done_simulation = [n \in Nodes |-> 0]
  /\ fundi_pending = 0
  /\ permuted = [n \in Nodes |-> 0]
  /\ trans_matrix_buffer = <<>>
  /\ visited = <<>>
  /\ simulated = NoSequences
  /\ site_treatment = NoSequences
  /\ removed_sites = {}
  /\ sequence2 = NoSequences
  /\ out2 = NoOutput
  /\ ret = "none"
  /\ shell = NoShell

\* one dataset, a random ancestral sequence, no FunDi taxon set
DefaultParams ==
  [sequence_type |-> "BIN", alisim_ancestral_sequence |-> -1, alisim_dataset_num |-> 1,
   alisim_fundi_taxon_set |-> {}]

\* one dataset on one tree, by either simulator
Init ==
  /\ \/ simulator = "alisim" /\ rate_name \in RateNames
     \/ simulator = "invar" /\ rate_name = {"+I"}
  /\ tree \in Trees
  /\ params = DefaultParams
  /\ length_ratio = 1
  /\ io_failure = "none"
  /\ dataset = 0
  /\ pc = "getAncestralSequence"
  /\ twin = FALSE
  /\ call = NoCall
  /\ Idle

Next ==
  \/ getAncestralSequence
  \/ simulateSeqsForTree
  \/ simulateSeqsWithoutRH
  \/ simulateSeqsWithRateHeterogeneity
  \/ simulateSeqsWithOnlyInvariantSites
  \/ returnFromNode
  \/ writeSequencesToFile
  \/ AliSimulatorInvar_simulateSeqsForTree
  \/ AliSimulatorInvar_simulateSeqs
  \/ AliSimulatorInvar_segfault
  \/ AliSimulatorInvar_return
  \/ AliSimulatorInvar_closeOutput

Spec == Init /\ [][Next]_vars

\* a run that is not stopped from outside: the process keeps taking steps
\* while it has one to take
SpecLive == Spec /\ WF_vars(Next)

\* two runs of alisim.cpp on the same tree, model, regime and draws
InitTwin ==
  /\ simulator = "alisim"
  /\ rate_name \in RateNames
  /\ tree \in Trees
  /\ params = DefaultParams
  /\ length_ratio = 1
  /\ io_failure = "none"
  /\ dataset = 0
  /\ pc = "getAncestralSequence"
  /\ twin = TRUE
  /\ call = NoCall
  /\ Idle

NextTwin ==
  \/ getAncestralSequence
  \/ simulateSeqsForTree
  \/ simulateSeqsWithoutRH
  \/ simulateSeqsWithRateHeterogeneity
  \/ simulateSeqsWithOnlyInvariantSites
  \/ returnFromNode
  \/ writeSequencesToFile

SpecTwin == InitTwin /\ [][NextTwin]_vars

\* one call of the sampler or of estimateStateWithRH
InitCall ==
  /\ simulator = "alisim"
  /\ rate_name = {}
  /\ tree = TreeStar
  /\ params = DefaultParams
  /\ length_ratio = 1
  /\ io_failure = "none"
  /\ dataset = 0
  /\ pc = "call"
  /\ twin = FALSE
  /\ call \in SamplerCalls \cup EstimateCalls
  /\ Idle

NextCall ==
  \/ callGetRandomItemWithProbabilityMatrix
  \/ callEstimateStateWithRH

SpecCall == InitCall /\ [][NextCall]_vars

\* alisim.cpp from the reading of the sequence type on, for every kind of
\* rate name: +ASC stands for a name that holds none of +G, +R, +I
SequenceTypes == {"BIN", "MORPH", "POMO"}

AllRateNames == RateNames \cup {{"+R"}, {"+R", "+I"}, {"+G", "+R"}, {"+ASC"}}

InitRegime ==
  /\ simulator = "alisim"
  /\ rate_name \in AllRateNames
  /\ tree \in Trees
  /\ \E st \in SequenceTypes : params = [DefaultParams EXCEPT !.sequence_type = st]
  /\ length_ratio = 1
  /\ io_failure = "none"
  /\ dataset = 0
  /\ pc = "initializeAlignment"
  /\ twin = FALSE
  /\ call = NoCall
  /\ Idle

NextRegime ==
  \/ initializeAlignment
  \/ getAncestralSequence
  \/ simulateSeqsForTree
  \/ simulateSeqsWithoutRH
  \/ simulateSeqsWithRateHeterogeneity
  \/ simulateSeqsWithOnlyInvariantSites
  \/ returnFromNode
  \/ writeSequencesToFile

SpecRegime == InitRegime /\ [][NextRegime]_vars

\* runAliSim with two datasets on one tree
InitDatasets ==
  /\ simulator = "alisim"
  /\ rate_name = {}
  /\ tree \in {TreeLeafRoot, TreeRooted}
  /\ params = [DefaultParams EXCEPT !.alisim_dataset_num = 2]
  /\ length_ratio = 1
  /\ io_failure = "none"
  /\ dataset = 0
  /\ pc = "getAncestralSequence"
  /\ twin = FALSE
  /\ call = NoCall
  /\ Idle

NextDatasets ==
  \/ getAncestralSequence
  \/ simulateSeqsForTree
  \/ simulateSeqsWithoutRH
  \/ returnFromNode
  \/ writeSequencesToFile
  \/ nextDataset

SpecDatasets == InitDatasets /\ [][NextDatasets]_vars

\* AliSimulatorInvar with a FunDi taxon set
InitFunDi ==
  /\ simulator = "invar"
  /\ rate_name = {"+I"}
  /\ tree \in Trees
  /\ \E ts \in {{"B", "C"}, {"A", "C"}} :
       params = [DefaultParams EXCEPT !.alisim_fundi_taxon_set = ts]
  /\ length_ratio = 1
  /\ io_failure = "none"
  /\ dataset = 0
  /\ pc = "getAncestralSequence"
  /\ twin = FALSE
  /\ call = NoCall
  /\ Idle

NextFunDi ==
  \/ getAncestralSequence
  \/ AliSimulatorInvar_simulateSeqsForTree
  \/ AliSimulatorInvar_simulateSeqs
  \/ AliSimulatorInvar_segfault
  \/ AliSimulatorInvar_return
  \/ AliSimulatorInvar_closeOutput

SpecFunDi == InitFunDi /\ [][NextFunDi]_vars

\* AliSimulatorInvar on trees with and without edges that name a model, two
\* datasets
InitBranch ==
  /\ simulator = "invar"
  /\ rate_name = {"+I"}
  /\ tree \in Trees
  /\ params = [DefaultParams EXCEPT !.alisim_dataset_num = 2]
  /\ length_ratio = 1
  /\ io_failure = "none"
  /\ dataset = 0
  /\ pc = "getAncestralSequence"
  /\ twin = FALSE
  /\ call = NoCall
  /\ Idle

NextBranch ==
  \/ getAncestralSequence
  \/ AliSimulatorInvar_simulateSeqsForTree
  \/ AliSimulatorInvar_simulateSeqs
  \/ AliSimulatorInvar_segfault
  \/ AliSimulatorInvar_return
  \/ AliSimulatorInvar_closeOutput
  \/ nextDataset

SpecBranch == InitBranch /\ [][NextBranch]_vars

\* one call of writeDate
InitDate ==
  /\ simulator = "alisim"
  /\ rate_name = {}
  /\ tree = TreeStar
  /\ params = DefaultParams
  /\ length_ratio = 1
  /\ io_failure = "none"
  /\ dataset = 0
  /\ pc = "call"
  /\ twin = FALSE
  /\ call \in WriteDateCalls
  /\ Idle

NextDate == callWriteDate

SpecDate == InitDate /\ [][NextDate]_vars

\* one run of the memory check script
InitMemoryCheck ==
  /\ simulator = "alisim"
  /\ rate_name = {}
  /\ tree = TreeStar
  /\ params = DefaultParams
  /\ length_ratio = 1
  /\ io_failure = "none"
  /\ dataset = 0
  /\ pc = "call"
  /\ twin = FALSE
  /\ call \in [fn : {"memory_check"}, rows : CombinedTables]
  /\ Idle

NextMemoryCheck ==
  \/ memoryCheckStart
  \/ memoryCheckRow
  \/ memoryCheckSummary

SpecMemoryCheck == InitMemoryCheck /\ [][NextMemoryCheck]_vars

\* either simulator with an output stream that fails
IoFailures == {"open", "header", "record", "close"}

InitFailure ==
  /\ \/ simulator = "alisim" /\ rate_name = {}
     \/ simulator = "invar" /\ rate_name = {"+I"}
  /\ tree \in Trees
  /\ params = [DefaultParams EXCEPT !.alisim_dataset_num = 2]
  /\ length_ratio = 1
  /\ io_failure \in IoFailures
  /\ dataset = 0
  /\ pc = "getAncestralSequence"
  /\ twin = FALSE
  /\ call = NoCall
  /\ Idle

NextFailure ==
  \/ getAncestralSequence
  \/ simulateSeqsForTree
  \/ simulateSeqsWithoutRH
  \/ returnFromNode
  \/ writeSequencesToFile
  \/ AliSimulatorInvar_simulateSeqsForTree
  \/ AliSimulatorInvar_simulateSeqs
  \/ AliSimulatorInvar_segfault
  \/ AliSimulatorInvar_return
  \/ AliSimulatorInvar_closeOutput

SpecFailure == InitFailure /\ [][NextFailure]_vars

\* alisim.cpp with the ancestral sequence taken from the input file
InitFile ==
  /\ simulator = "alisim"
  /\ rate_name \in RateNames
  /\ tree \in Trees
  /\ params = [DefaultParams EXCEPT !.alisim_ancestral_sequence = 0]
  /\ length_ratio = 1
  /\ io_failure = "none"
  /\ dataset = 0
  /\ pc = "getAncestralSequence"
  /\ twin = FALSE
  /\ call = NoCall
  /\ Idle

NextFile ==
  \/ getAncestralSequence
  \/ simulateSeqsForTree
  \/ simulateSeqsWithoutRH
  \/ simulateSeqsWithRateHeterogeneity
  \/ simulateSeqsWithOnlyInvariantSites
  \/ returnFromNode
  \/ writeSequencesToFile

SpecFile == InitFile /\ [][NextFile]_vars

\* AliSimulatorInvar run at an inflated length
InitInflated ==
  /\ simulator = "invar"
  /\ rate_name = {"+I"}
  /\ tree \in Trees
  /\ params = DefaultParams
  /\ length_ratio = 2
  /\ io_failure = "none"
  /\ dataset = 0
  /\ pc = "getAncestralSequence"
  /\ twin = FALSE
  /\ call = NoCall
  /\ Idle

NextInflated ==
  \/ getAncestralSequence
  \/ AliSimulatorInvar_simulateSeqsForTree
  \/ AliSimulatorInvar_simulateSeqs
  \/ AliSimulatorInvar_segfault
  \/ AliSimulatorInvar_return
  \/ AliSimulatorInvar_closeOutput

SpecInflated == InitInflated /\ [][NextInflated]_vars

\* ------------------------------------------------------------------ claims
NonRootNodes == Nodes \ {tree.root}
RecordNames(o) == [k \in DOMAIN o.records |-> o.records[k].name]
NamesOf(nodes) == [k \in DOMAIN nodes |-> tree.name[nodes[k]]]
\* the leaves other than the root, in the order the traversal reached them
VisitedNonRootLeaves ==
  LET NonRootLeaf(n) == isLeaf(tree, n) /\ n # tree.root
  IN SelectSeq(visited, NonRootLeaf)
RootIsWritten == isLeaf(tree, tree.root) /\ tree.name[tree.root] # ROOT_NAME

\* C1: two runs of the simulation on the same tree, model, regime and draws
\* end with the same output file: the same leaf records in the same order, with
\* the same state at every site.
C1_Determinism == (twin /\ pc = "done") => out2 = out

C3_ReleaseOrdering ==
  \A k \in DOMAIN stack :
    NextNeighbor(tree, stack[k].node, stack[k].dad, stack[k].it) # 0
      => Len(sequence[stack[k].node]) = sequence_length

\* C4: on success the output holds exactly one record for every leaf other
\* than the root, and no other record, in the order the traversal reached
\* those leaves.
C4_RecordsAreNonRootLeaves ==
  pc = "done" => RecordNames(out) = NamesOf(VisitedNonRootLeaves)

\* C4, amended: on success the output holds exactly one record for every leaf
\* that is not named ROOT_NAME, the root included when it is such a leaf; the
\* records of the other leaves are in the order the traversal reached them,
\* and writeSequencesToFile puts the root's record first.
C4_RecordsAreNamedLeaves ==
  pc = "done" =>
    LET names == RecordNames(out)
        NotRoot(nm) == nm # tree.name[tree.root]
        IsRoot(nm) == nm = tree.name[tree.root]
    IN /\ SelectSeq(names, NotRoot) = NamesOf(VisitedNonRootLeaves)
       /\ Len(SelectSeq(names, IsRoot)) = (IF RootIsWritten THEN 1 ELSE 0)
       /\ (simulator = "alisim" /\ RootIsWritten) => names[1] = tree.name[tree.root]

C4_Witness ==
  /\ pc = "done"
  /\ simulator = "alisim"
  /\ tree = TreeLeafRoot
  /\ RecordNames(out) = <<"A", "B", "C">>

\* C5: in the only-invariant-sites simulator, at every site whose pre-drawn
\* rate is 0, every node is given the state of its parent, hence of the root.
C5_InvariantSiteFidelity ==
  (simulator = "invar" /\ pc \in {"simulateSeqs", "closeOutput", "done"}) =>
    \A i \in Sites :
      site_specific_rates[i] = 0 =>
        \A k \in 2..Len(visited) : simulated[visited[k]][i] = ancestral_sequence[i]

\* C6: in the only-invariant-sites regime a site is treated the same way on
\* every edge: as invariant on all of them or as variable on all of them.
C6_SameTreatmentOnEveryEdge ==
  TraversalOf(rate_name) = "simulateSeqsWithOnlyInvariantSites" =>
    \A i \in Sites : \A k1, k2 \in 2..Len(visited) :
      site_treatment[visited[k1]][i] = site_treatment[visited[k2]][i]

RECURSIVE SumOfItems(_, _, _)
SumOfItems(pm, s, i) == IF i < 0 THEN 0 ELSE pm[s + i] + SumOfItems(pm, s, i - 1)

\* C7: getRandomItemWithProbabilityMatrix(d, s, K) with the draw u returns the
\* smallest i of 0..K-1 with d[s] + ... + d[s+i] >= u, an index relative to s;
\* it returns -1 exactly when all K entries sum to less than u; it returns
\* nothing outside {-1, 0, ..., K-1}.
C7_CumulativeSampler ==
  (pc = "returned" /\ call.fn = "getRandomItemWithProbabilityMatrix") =>
    LET hits == {i \in 0..(call.num_items - 1) :
                   SumOfItems(call.pm, call.starting_index, i) >= call.u}
    IN /\ ret \in {-1} \cup 0..(call.num_items - 1)
       /\ ret = -1 <=> SumOfItems(call.pm, call.starting_index, call.num_items - 1) < call.u
       /\ ret # -1 => (ret \in hits /\ \A i \in hits : ret <= i)

C7_Witness ==
  /\ pc = "returned"
  /\ call.fn = "getRandomItemWithProbabilityMatrix"
  /\ call.starting_index = 2
  /\ call.num_items = 2
  /\ call.pm[2] < call.u
  /\ ret = 1

\* C8: every site of every node's sequence holds a state of 0..N-1; the -1 of
\* the sampler is never stored as a state.
C8_ValidStates ==
  \A n \in Nodes : \A i \in DOMAIN sequence[n] : sequence[n][i] \in States

\* C9: a category draw that finds nothing (-1) selects the last rate category,
\* and the child state is sampled with that category's rate.
C9_NotFoundIsLastCategory ==
  (pc = "returned" /\ call.fn = "estimateStateWithRH" /\ ret.rate_category = -1) =>
    /\ ret.computed_for = call.branch_length * getRate(num_rate_categories - 1)
    /\ ret.state = SampleRow(computeTransMatrix("", ret.computed_for), call.dad_state,
                             call.u2, 0)

\* C9, amended: a category draw that finds nothing (-1) selects no category:
\* estimateStateWithRH returns the dad's state, computes no transition matrix
\* and consumes no second draw.
C9_NotFoundCopiesDadState ==
  (pc = "returned" /\ call.fn = "estimateStateWithRH" /\ ret.rate_category = -1) =>
    /\ ret.state = call.dad_state
    /\ ret.computed_for = 0
    /\ ret.draws = 1

C9_Witness ==
  /\ pc = "returned"
  /\ call.fn = "estimateStateWithRH"
  /\ ret.rate_category = -1
  /\ call.dad_state = 1
  /\ ret.state = 1

\* C10: the leaf count of the header line equals the number of leaf records
\* written after it.
C10_HeaderLeafCount ==
  pc = "done" => out.header[1] = Len(out.records)

\* C11: the sequence length of the header line equals the number of sites of
\* every leaf record written after it.
C11_HeaderSequenceLength ==
  pc = "done" =>
    \A k \in DOMAIN out.records : Len(out.records[k].line) = out.header[2]

\* C12: after a run at an inflated length the written alignment has exactly
\* the requested length, the removed columns number the inflated length less
\* the requested one and each of them is constant over the leaves; without
\* inflation no column is removed.
C12_PostTrimCorrectness ==
  (simulator = "invar" /\ pc = "done") =>
    /\ \A k \in DOMAIN out.records : Len(out.records[k].line) = sequence_length
    /\ Cardinality(removed_sites) = expected_num_sites - sequence_length
    /\ \A i \in removed_sites :
         \A a, b \in {n \in Nodes : isLeaf(tree, n)} : simulated[a][i] = simulated[b][i]

\* C13: with a rate name that selects no regime, or with an unsupported
\* sequence type, the run ends in a fatal error: it never completes and never
\* writes a dataset file.
C13_UnsupportedConfigurationIsFatal ==
  (TraversalOf(rate_name) = "none" \/ params.sequence_type \in {"MORPH", "POMO"}) =>
    (pc # "done" /\ out = NoOutput)

\* C14: a failure of the output stream, at the opening, at the header, at a
\* leaf record or at the closing, ends the run in the write-output error: the
\* dataset is never completed, no later dataset is started and the failure
\* never leaves the simulator as an exception that nothing reports.
C14_OutputFailuresAreFatal ==
  io_failure # "none" =>
    /\ pc \notin {"done", "nextDataset", "ios_failure"}
    /\ dataset = 0

C16_FunDiPermutation ==
  (simulator = "invar" /\ pc = "done") =>
    LET qualifying == {n \in Nodes : /\ isLeaf(tree, n)
                                     /\ tree.name[n] \in params.alisim_fundi_taxon_set}
        RecordOf(n) == CHOOSE r \in {out.records[k] : k \in DOMAIN out.records} :
                         r.name = tree.name[n]
        Expected(n, i) ==
          IF n \in qualifying /\ i \in fundi_items /\ Cardinality(qualifying) = 2
          THEN simulated[CHOOSE o \in qualifying : o # n][i]
          ELSE simulated[n][i]
    IN \A n \in Nodes :
         (isLeaf(tree, n) /\ tree.name[n] # ROOT_NAME) =>
           \A i \in Sites : RecordOf(n).line[i] = convertStateBackStr(Expected(n, i))

\* C17: for every rate name exactly one traversal variant runs in a dataset:
\* the variant without rate heterogeneity iff the rate name is empty, the
\* discrete-category variant iff it holds +G or +R (with or without +I), the
\* only-invariant-sites variant iff it holds +I and neither +G nor +R; the
\* variant is chosen before the traversal and does not change during it.
TraversalVariants ==
  {"simulateSeqsWithoutRH", "simulateSeqsWithRateHeterogeneity",
   "simulateSeqsWithOnlyInvariantSites"}

C17_RegimeSelection ==
  /\ [](pc \in TraversalVariants =>
          /\ pc = "simulateSeqsWithoutRH" <=> rate_name = {}
          /\ pc = "simulateSeqsWithRateHeterogeneity" <=>
                ("+G" \in rate_name \/ "+R" \in rate_name)
          /\ pc = "simulateSeqsWithOnlyInvariantSites" <=>
                ("+I" \in rate_name /\ "+G" \notin rate_name /\ "+R" \notin rate_name))
  /\ [](pc \in {"writeSequencesToFile", "done"} => visited # <<>>)
  /\ [][(pc \in TraversalVariants /\ pc' \in TraversalVariants) => (pc' = pc)]_vars

\* C18: during one traversal every node's sequence is populated at most once;
\* a node other than the root is populated in full at the step that processes
\* its incoming edge, and at that step the sequence of its parent is already
\* fully populated; the root's sequence is full when the traversal starts.
C18_ParentBeforeChildOnce ==
  [][(Len(visited') = Len(visited) + 1) =>
       LET n == visited'[Len(visited')]
       IN /\ \A k \in 1..Len(visited) : visited[k] # n
          /\ IF visited = <<>>
             THEN n = tree.root /\ Len(sequence[n]) >= Cardinality(Sites)
             ELSE /\ Len(simulated'[n]) = Cardinality(Sites)
                  /\ Len(sequence[TopFrame.node]) >= Cardinality(Sites)]_vars

\* C19: the traversal started at the root terminates, and when it has ended
\* every node of the tree has been visited exactly once; every edge is
\* processed at most once and from the parent, already visited, to the child,
\* not yet visited.
TraversalEnded == pc \in {"writeSequencesToFile", "closeOutput", "done"}

VisitedExactlyOnce ==
  \A n \in Nodes : Cardinality({k \in 1..Len(visited) : visited[k] = n}) = 1

PositionIn(seq, n) == CHOOSE k \in 1..Len(seq) : seq[k] = n

ChildEdgesSimulated(n) ==
  IF \A k \in 1..Len(visited) : visited[k] # n THEN 0
  ELSE Cardinality({j \in 1..Len(tree.neighbors[n]) :
         \E k \in 1..Len(visited) :
           /\ visited[k] = tree.neighbors[n][j].node
           /\ k > PositionIn(visited, n)})

C20_ReleaseCounter ==
  (simulator = "invar" /\ pc \in {"simulateSeqs", "closeOutput", "done"}) =>
    \A n \in Nodes :
      /\ num_children_done_simulation[n] >= 0
      /\ num_children_done_simulation[n] <= Len(tree.neighbors[n]) - 1
      /\ num_children_done_simulation[n] = ChildEdgesSimulated(n)

\* C21: in the discrete-category regime, on every edge and at every site, a
\* category is drawn from the category weights; when category c is drawn the
\* transition matrix is computed for the branch length of the edge times the
\* rate of c, the parent's state at the site names a row of that matrix and
\* the child's state is the sampler's result on that row; when no category is
\* drawn the child's state is the parent's state.
DiscreteCategoryState(nb, dad_state, state) ==
  \E u1 \in Draws, u2 \in Draws :
    LET c == getRandomItemWithProbabilityMatrix(CategoryProbabilityMatrix(rate_name), 0,
                                                num_rate_categories, u1)
    IN IF c = -1 THEN state = dad_state
       ELSE /\ dad_state \in States
            /\ state = getRandomItemWithProbabilityMatrix(
                         computeTransMatrix("", nb.length * getRate(c)),
                         dad_state * max_num_states, max_num_states, u2)

C21_DiscreteCategoryRegime ==
  [][(pc = "simulateSeqsWithRateHeterogeneity" /\ Len(visited') = Len(visited) + 1) =>
       \A i \in Sites :
         DiscreteCategoryState(TopNeighbor, sequence[TopFrame.node][i],
                               sequence'[visited'[Len(visited')]][i])]_vars

\* C22: when the category draw of a site finds no category (-1), the child's
\* state at the site is the parent's state, whatever that state is, the
\* transition matrix is not computed and the matrix buffer is as it was, and
\* the draw for the state is not consumed.
C22_InvariantClassSentinel ==
  (pc = "returned" /\ call.fn = "estimateStateWithRH" /\ ret.rate_category = -1) =>
    /\ ret.state = call.dad_state
    /\ ret.computed_for = 0
    /\ ret.trans_matrix = call.trans_matrix
    /\ ret.draws = 1

C22_Witness ==
  /\ pc = "returned"
  /\ call.fn = "estimateStateWithRH"
  /\ ret.rate_category = -1
  /\ call.branch_length = 2
  /\ call.dad_state = 0
  /\ ret.state = 0
  /\ ret.trans_matrix = computeTransMatrix("", 1)

C24_FunDiOrdering ==
  [][\A n \in Nodes :
       (simulator = "invar" /\ pc = "simulateSeqs" /\ permuted'[n] > permuted[n]) =>
         /\ permuted'[n] = 1
         /\ isLeaf(tree, n)
         /\ params.alisim_fundi_taxon_set # {}
         /\ IF n = TopFrame.node
            THEN Len(sequence[n]) = Cardinality(Sites)
            ELSE n = TopNeighbor.node /\ Len(simulated'[n]) = Cardinality(Sites)
         /\ \A k \in DOMAIN out.records : out.records[k].name # tree.name[n]]_vars

C24_Witness ==
  /\ simulator = "invar"
  /\ tree = TreeLeafRoot
  /\ params.alisim_fundi_taxon_set = {"A", "C"}
  /\ pc = "done"
  /\ permuted = <<1, 0, 1, 1>>
  /\ Len(out.records) = 3

\* C25: when date_with_outgroup is false, no date record is written under a
\* key that is the name of an outgroup taxon; when it is true, every taxon of
\* the tree that has a date is written; the count of the first line is the
\* number of date records written after it.
C25_WriteDateOutgroupRule ==
  (pc = "returned" /\ call.fn = "writeDate") =>
    LET written == {ret.records[k].name : k \in DOMAIN ret.records}
    IN /\ ~call.date_with_outgroup => written \cap call.outgroup_set = {}
       /\ call.date_with_outgroup =>
            (call.nodenames \cap DOMAIN call.dates) \subseteq written
       /\ ret.count = Len(ret.records)

\* C26: when the script has ended, it has counted the rows whose reported
\* memory exceeds expected + threshold; if that count is at least 1 the exit
\* status is 1 and the failure count is reported, and "All runtime checks
\* passed." with the exit status 0 is the outcome only if no row exceeds its
\* allowance.
ExceedingRows == {k \in DOMAIN call.rows : is_exceed(call.rows[k])}

C26_MemoryCheckExitStatus ==
  (pc = "returned" /\ call.fn = "memory_check") =>
    /\ shell.subshell_fail_count = Cardinality(ExceedingRows)
    /\ ExceedingRows # {} =>
         /\ shell.status = 1
         /\ shell.printed = "checks failed."
         /\ shell.fail_count = Cardinality(ExceedingRows)
    /\ (shell.status = 0 /\ shell.printed = "All runtime checks passed.") =>
         ExceedingRows = {}

====
